---- MODULE Spec2Model ----
(***************************************************************************)
(* The C/N0 estimator (Signal-to-Noise Variance method) and the first      *)
(* order low-pass IIR filter of libswiftnav's tracking code.               *)
(*                                                                         *)
(* Arithmetic.  The code computes in single-precision floats.  The model   *)
(* computes in exact rationals extended with the IEEE special values the   *)
(* code can produce: NaN (0/0, inf-inf, 0*inf, sqrtf or log10f of a        *)
(* negative number) and the two infinities (x/0, log10f(0)).  Rounding and *)
(* the sign of zero are not modelled.  A value is a record                 *)
(*   [k |-> "fin", n |-> numerator, d |-> denominator > 0]  (lowest terms) *)
(*   [k |-> "inf", n |-> 1 or -1, d |-> 0]                                 *)
(*   [k |-> "nan", n |-> 0, d |-> 0]                                       *)
(* and two values are equal when they are the same record, so NaN equals   *)
(* NaN here: equality is equality of the stored value, not C's ==.  The    *)
(* comparisons FLt and FGt are C's: false when an operand is NaN.          *)
(*                                                                         *)
(* The transcendental functions are modelled by what they do to the        *)
(* special values and to the sign of their argument, and on finite         *)
(* arguments by rational approximations (M_PI, Tanf, Sqrtf, the constant   *)
(* powf(10, -3/20)) or exactly (TenLog10f, see "decibels" below).          *)
(*                                                                         *)
(* Line 64 of filter_lp1.c, f->a = (-2.f-tmp) / (2.f-tmp), lacks its       *)
(* semicolon; the model reads it as the assignment it spells.              *)
(*                                                                         *)
(* The two objects are independent, so each has its own specification:     *)
(* SpecCn0 drives the estimator and SpecLp1 the filter, the other object   *)
(* staying idle.                                                           *)
(***************************************************************************)
EXTENDS Integers, Sequences, FiniteSets

\* ------------------------------------------------------------ numbers

AbsI(i) == IF i < 0 THEN -i ELSE i

RECURSIVE GCD(_, _)
GCD(x, y) == IF y = 0 THEN x ELSE GCD(y, x % y)

Fin(n, d) == [k |-> "fin", n |-> n, d |-> d]

\* n/d in lowest terms, d # 0.
Rat(n, d) ==
  LET g == GCD(AbsI(n), AbsI(d))
      sg == IF d < 0 THEN -1 ELSE 1
  IN Fin((sg * n) \div g, (sg * d) \div g)

Num(i) == Fin(i, 1)

NaN == [k |-> "nan", n |-> 0, d |-> 0]

PInf == [k |-> "inf", n |-> 1, d |-> 0]

NInf == [k |-> "inf", n |-> -1, d |-> 0]

\* The value of a local the taken branch never assigns.
NoVal == [k |-> "none", n |-> 0, d |-> 0]

Zero == Num(0)

IsNaN(x) == x.k = "nan"

IsFin(x) == x.k = "fin"

IsInf(x) == x.k = "inf"

IsZero(x) == x.k = "fin" /\ x.n = 0

Sgn(x) == IF x.n < 0 THEN -1 ELSE IF x.n > 0 THEN 1 ELSE 0

InfOf(sg) == IF sg < 0 THEN NInf ELSE PInf

FNeg(x) == IF IsNaN(x) THEN NaN ELSE [x EXCEPT !.n = -x.n]

\* fabsf
FAbs(x) == IF IsNaN(x) THEN NaN ELSE [x EXCEPT !.n = AbsI(x.n)]

FAdd(x, y) ==
  IF IsNaN(x) \/ IsNaN(y) THEN NaN
  ELSE IF IsInf(x) /\ IsInf(y) THEN (IF x.n = y.n THEN x ELSE NaN)
  ELSE IF IsInf(x) THEN x
  ELSE IF IsInf(y) THEN y
  ELSE LET g == GCD(x.d, y.d)
       IN Rat(x.n * (y.d \div g) + y.n * (x.d \div g), (x.d \div g) * y.d)

FSub(x, y) == FAdd(x, FNeg(y))

FMul(x, y) ==
  IF IsNaN(x) \/ IsNaN(y) THEN NaN
  ELSE IF IsInf(x) \/ IsInf(y)
       THEN (IF IsZero(x) \/ IsZero(y) THEN NaN ELSE InfOf(Sgn(x) * Sgn(y)))
  ELSE LET g1 == GCD(AbsI(x.n), y.d)
           g2 == GCD(AbsI(y.n), x.d)
       IN Rat((x.n \div g1) * (y.n \div g2), (x.d \div g2) * (y.d \div g1))

FDiv(x, y) ==
  IF IsNaN(x) \/ IsNaN(y) THEN NaN
  ELSE IF IsInf(y) THEN (IF IsInf(x) THEN NaN ELSE Zero)
  ELSE IF IsZero(y) THEN (IF IsZero(x) THEN NaN ELSE InfOf(Sgn(x)))
  ELSE IF IsInf(x) THEN InfOf(Sgn(x) * Sgn(y))
  ELSE FMul(x, Rat(y.d, y.n))

\* C's x < y.  Finite operands are compared by integer part and then by
\* fractional part, which keeps the products small.
FLt(x, y) ==
  IF IsNaN(x) \/ IsNaN(y) THEN FALSE
  ELSE IF IsInf(x) THEN x.n < 0 /\ y # x
  ELSE IF IsInf(y) THEN y.n > 0
  ELSE LET fx == x.n \div x.d
           fy == y.n \div y.d
       IN fx < fy \/ (fx = fy /\ (x.n % x.d) * y.d < (y.n % y.d) * x.d)

FGt(x, y) == FLt(y, x)

\* --------------------------------------------------------- decibels
\* The code forms dB quantities only as 10.f*log10f(x) and as differences of
\* dB quantities.  A finite dB quantity 10*log10(r), r > 0, is carried by
\* its power ratio r, as [k |-> "dB", n, d] with r = n/d: log10 is
\* injective, so two dB quantities are equal exactly when their ratios are,
\* and a difference of dB quantities is the quotient of the ratios.

Db(x) == [k |-> "dB", n |-> x.n, d |-> x.d]

\* 10.f * log10f(x)
TenLog10f(x) ==
  IF IsNaN(x) THEN NaN
  ELSE IF IsInf(x) THEN (IF x.n > 0 THEN PInf ELSE NaN)
  ELSE IF x.n < 0 THEN NaN
  ELSE IF x.n = 0 THEN NInf
  ELSE Db(x)

\* x - y for two dB quantities
DbSub(x, y) ==
  IF IsNaN(x) \/ IsNaN(y) THEN NaN
  ELSE IF IsInf(x) /\ IsInf(y) THEN (IF x.n = y.n THEN NaN ELSE x)
  ELSE IF IsInf(x) THEN x
  ELSE IF IsInf(y) THEN FNeg(y)
  ELSE Db(FDiv(Fin(x.n, x.d), Fin(y.n, y.d)))

\* ------------------------------------------------------ C/N0 estimator

CN0_SNV_NSR_MIN_MULTIPLIER == Rat(1, 1000000)

CN0_SNV_NSR_MIN == Num(1000000)

\* A sentinel that is a possible magnitude.
SentinelZero == Num(0)

\* The sentinel cn0_est_snv_init stores in I_prev_abs and Q_prev_abs.
Sentinel == Num(-1)

\* cn0_est_snv_init.  The memset and the four assignments overwrite every
\* field, so the previous contents s0 are not read.
cn0_est_snv_init(s0, bw, cn0_0, f_s, f_i) ==
  [log_bw     |-> TenLog10f(FDiv(FMul(bw, f_i), f_s)),
   I_prev_abs |-> Sentinel,
   Q_prev_abs |-> Sentinel,
   cn0        |-> cn0_0]

\* The first-iteration test written with <= instead of <.
IsFirstIterationLe(I_prev_abs) == ~FGt(I_prev_abs, Zero) /\ ~IsNaN(I_prev_abs)

\* if (I_prev_abs < 0.f): the first iteration after init.
IsFirstIteration(I_prev_abs) == FLt(I_prev_abs, Zero)

\* P_s = 0.5f * (I_abs + I_prev_abs); P_s *= P_s;
SignalPower(I_abs, I_prev_abs) ==
  LET h == FMul(Rat(1, 2), FAdd(I_abs, I_prev_abs)) IN FMul(h, h)

\* The total power with the quadrature terms left out.
TotalPowerNoQ(I_abs, Q_abs, I_prev_abs, Q_prev_abs) ==
  FMul(Rat(1, 2), FAdd(FMul(I_prev_abs, I_prev_abs), FMul(I_abs, I_abs)))

\* P_tot = 0.5f * (Q_prev_abs^2 + I_prev_abs^2 + Q_abs^2 + I_abs^2)
TotalPower(I_abs, Q_abs, I_prev_abs, Q_prev_abs) ==
  FMul(Rat(1, 2),
       FAdd(FAdd(FAdd(FMul(Q_prev_abs, Q_prev_abs), FMul(I_prev_abs, I_prev_abs)),
                 FMul(Q_abs, Q_abs)),
            FMul(I_abs, I_abs)))

\* if (P_s < P_n * CN0_SNV_NSR_MIN_MULTIPLIER): the clamp branch is taken.
NsrOutOfLimit(P_s, P_n) == FLt(P_s, FMul(P_n, CN0_SNV_NSR_MIN_MULTIPLIER))

\* cn0_est_snv_update: the new state, the returned value, the branch taken
\* and the locals of the call.
cn0_est_snv_update(s, I, Q) ==
  LET I_abs == FAbs(I)
      Q_abs == FAbs(Q)
      I_prev_abs == s.I_prev_abs
      Q_prev_abs == s.Q_prev_abs
      s1 == [s EXCEPT !.I_prev_abs = I_abs, !.Q_prev_abs = Q_abs]
  IN IF IsFirstIteration(I_prev_abs)
     THEN [s |-> s1, ret |-> s1.cn0, branch |-> "first",
           P_s |-> NoVal, P_tot |-> NoVal, P_n |-> NoVal, nsr |-> NoVal]
     ELSE LET P_s == SignalPower(I_abs, I_prev_abs)
              P_tot == TotalPower(I_abs, Q_abs, I_prev_abs, Q_prev_abs)
              P_n == FSub(P_tot, P_s)
              clamp == NsrOutOfLimit(P_s, P_n)
              nsr == IF clamp THEN CN0_SNV_NSR_MIN ELSE FDiv(P_tot, P_s)
              nsr_db == TenLog10f(nsr)
              s2 == [s1 EXCEPT !.cn0 = DbSub(s1.log_bw, nsr_db)]
          IN [s |-> s2, ret |-> s2.cn0,
              branch |-> IF clamp THEN "clamp" ELSE "div",
              P_s |-> P_s, P_tot |-> P_tot, P_n |-> P_n, nsr |-> nsr]

\* ------------------------------------------------- low-pass filter

\* M_PI, as the rational 355/113 = 3.1415929...
M_PI == Rat(355, 113)

\* tanf.  A finite argument is mapped by the Pade approximant
\* x(15 - x^2)/(15 - 6x^2) of tan, which has its pole near pi/2; an infinite
\* or NaN argument gives NaN.
Tanf(x) ==
  IF ~IsFin(x) THEN NaN
  ELSE LET x2 == FMul(x, x)
       IN FDiv(FMul(x, FSub(Num(15), x2)), FSub(Num(15), FMul(Num(6), x2)))

\* powf(10.f, -3.f/20.f) = 0.70794578..., to four decimal places.
Powf10Minus3Over20 == Rat(7079, 10000)

\* The integer square root of i >= 0.
ISqrt(i) == CHOOSE r \in 0..i : r * r <= i /\ i < (r + 1) * (r + 1)

\* sqrtf.  NaN for a negative argument (domain error); a non-negative
\* rational n/d is mapped to floor(sqrt(n*d))/d, exact on squares.
Sqrtf(x) ==
  IF IsNaN(x) THEN NaN
  ELSE IF IsInf(x) THEN (IF x.n > 0 THEN PInf ELSE NaN)
  ELSE IF x.n < 0 THEN NaN
  ELSE Rat(ISqrt(x.n * x.d), x.d)

\* lp1_filter_init without the memset and without the assignment of yn.
lp1_filter_init_keeps_yn(f0, initial, cutoff_freq, loop_freq) ==
  LET Ts == FDiv(Num(1), loop_freq)
      wp == FMul(FMul(FMul(FMul(Num(10), cutoff_freq), Num(2)), M_PI), Ts)
      Op == FMul(FDiv(Num(1), FMul(M_PI, Ts)), Tanf(FDiv(wp, Num(2))))
      Ap == Powf10Minus3Over20
      Oc == FDiv(Op, Sqrtf(FDiv(Num(1), FSub(FMul(Ap, Ap), Num(1)))))
      tmp == FMul(Oc, Ts)
      b == FDiv(FNeg(tmp), FSub(Num(2), tmp))
      a == FDiv(FSub(Num(-2), tmp), FSub(Num(2), tmp))
  IN [f |-> [a |-> a, b |-> b, xn |-> FMul(initial, b), yn |-> f0.yn],
      loc |-> [Ts |-> Ts, wp |-> wp, Op |-> Op, Ap |-> Ap, Oc |-> Oc,
               tmp |-> tmp]]

\* lp1_filter_init: the new object and the locals of the call.  The memset
\* and the four assignments overwrite every field, so the previous
\* contents f0 are not read.
lp1_filter_init(f0, initial, cutoff_freq, loop_freq) ==
  LET Ts == FDiv(Num(1), loop_freq)
      wp == FMul(FMul(FMul(FMul(Num(10), cutoff_freq), Num(2)), M_PI), Ts)
      Op == FMul(FDiv(Num(1), FMul(M_PI, Ts)), Tanf(FDiv(wp, Num(2))))
      Ap == Powf10Minus3Over20
      Oc == FDiv(Op, Sqrtf(FDiv(Num(1), FSub(FMul(Ap, Ap), Num(1)))))
      tmp == FMul(Oc, Ts)
      b == FDiv(FNeg(tmp), FSub(Num(2), tmp))
      a == FDiv(FSub(Num(-2), tmp), FSub(Num(2), tmp))
  IN [f |-> [a |-> a, b |-> b, xn |-> FMul(initial, b), yn |-> initial],
      loc |-> [Ts |-> Ts, wp |-> wp, Op |-> Op, Ap |-> Ap, Oc |-> Oc,
               tmp |-> tmp]]

\* lp1_filter_update storing the input, not b times the input, in xn.
lp1_filter_update_unscaled_xn(f0, value) ==
  LET tmp == FMul(f0.b, value)
      yn == FSub(FAdd(tmp, f0.xn), FMul(f0.a, f0.yn))
  IN [f |-> [f0 EXCEPT !.yn = yn, !.xn = value], ret |-> yn]

\* lp1_filter_update without the assignment f->xn = tmp.
lp1_filter_update_stale_xn(f0, value) ==
  LET tmp == FMul(f0.b, value)
      yn == FSub(FAdd(tmp, f0.xn), FMul(f0.a, f0.yn))
  IN [f |-> [f0 EXCEPT !.yn = yn], ret |-> yn]

\* lp1_filter_update: the new object and the returned value.
lp1_filter_update(f0, value) ==
  LET tmp == FMul(f0.b, value)
      yn == FSub(FAdd(tmp, f0.xn), FMul(f0.a, f0.yn))
  IN [f |-> [f0 EXCEPT !.yn = yn, !.xn = tmp], ret |-> yn]

\* ------------------------------------------------------------- state

VARIABLES
  s,        \* the cn0_est_state_t object: log_bw, I_prev_abs, Q_prev_abs, cn0
  s_ok,     \* cn0_est_snv_init has been called on s
  arg,      \* the arguments of the last cn0_est_snv_init
  n_upd,    \* cn0_est_snv_update calls since the last cn0_est_snv_init
  call,     \* the last cn0_est_snv_update: arguments, branch, locals, result
  prev,     \* the (I, Q) of the cn0_est_snv_update before the last one
  steady,   \* every cn0_est_snv_update since the last init had the same (I, Q)
  f,        \* the lp1_filter_t object: a, b, xn, yn
  n_init,   \* lp1_filter_init calls so far
  lp_arg,   \* the arguments of the last lp1_filter_init
  lp_loc,   \* the locals of the last lp1_filter_init
  f0,       \* f as the last lp1_filter_init left it (as Init, if none yet)
  hist,     \* the values fed to lp1_filter_update since then
  outs      \* the values lp1_filter_update returned for them

cn0vars == <<s, s_ok, arg, n_upd, call, prev, steady>>

lpvars == <<f, n_init, lp_arg, lp_loc, f0, hist, outs>>

vars == <<s, s_ok, arg, n_upd, call, prev, steady, f, n_init, lp_arg, lp_loc, f0,
          hist, outs>>

\* --------------------------------------------------------- estimator

\* cn0_est_snv_update calls made after one cn0_est_snv_init.
MaxCalls == 3

\* Loop noise bandwidths (Hz); 0 violates the precondition bw > 0.
BwValues == {Num(0), Num(1)}

\* Initial C/N0 values: 30 dBHz and 40 dBHz.
Cn0Values == {Db(Num(1000)), Db(Num(10000))}

\* Sampling frequencies (Hz); 0 violates the precondition f_s > 0.
FsValues == {Num(0), Num(10)}

\* Loop integration frequencies (Hz).
FiValues == {Num(1), Num(2)}

\* Correlator outputs.
Samples == {Num(-1), Num(0), Num(1), Num(1000)}

\* What the memory of s may hold before cn0_est_snv_init.
Cn0Garbage ==
  {[log_bw |-> Zero, I_prev_abs |-> Zero, Q_prev_abs |-> Zero, cn0 |-> Zero],
   [log_bw |-> Db(Num(2)), I_prev_abs |-> Num(1), Q_prev_abs |-> Num(2),
    cn0 |-> Db(Num(5))]}

NoArg == [bw |-> NoVal, cn0_0 |-> NoVal, f_s |-> NoVal, f_i |-> NoVal]

NoSample == [I |-> NoVal, Q |-> NoVal]

NoCall == [I |-> NoVal, Q |-> NoVal, ret |-> NoVal, branch |-> "none",
           P_s |-> NoVal, P_tot |-> NoVal, P_n |-> NoVal, nsr |-> NoVal]

Cn0Start ==
  /\ s \in Cn0Garbage
  /\ s_ok = FALSE
  /\ arg = NoArg
  /\ n_upd = 0
  /\ call = NoCall
  /\ prev = NoSample
  /\ steady = TRUE

Cn0EstSnvInit ==
  \E bw \in BwValues, cn0_0 \in Cn0Values, f_s \in FsValues, f_i \in FiValues :
    /\ s' = cn0_est_snv_init(s, bw, cn0_0, f_s, f_i)
    /\ s_ok' = TRUE
    /\ arg' = [bw |-> bw, cn0_0 |-> cn0_0, f_s |-> f_s, f_i |-> f_i]
    /\ n_upd' = 0
    /\ call' = NoCall
    /\ prev' = NoSample
    /\ steady' = TRUE
    /\ UNCHANGED lpvars

Cn0EstSnvUpdate ==
  \E I \in Samples, Q \in Samples :
    /\ s_ok
    /\ n_upd < MaxCalls
    /\ \E r \in {cn0_est_snv_update(s, I, Q)} :
         /\ s' = r.s
         /\ call' = [I |-> I, Q |-> Q, ret |-> r.ret, branch |-> r.branch,
                     P_s |-> r.P_s, P_tot |-> r.P_tot, P_n |-> r.P_n,
                     nsr |-> r.nsr]
    /\ prev' = [I |-> call.I, Q |-> call.Q]
    /\ steady' = (steady /\ (n_upd = 0 \/ (I = call.I /\ Q = call.Q)))
    /\ n_upd' = n_upd + 1
    /\ UNCHANGED <<s_ok, arg>>
    /\ UNCHANGED lpvars

\* ------------------------------------------------------------ filter

ZeroF == [a |-> Zero, b |-> Zero, xn |-> Zero, yn |-> Zero]

NoLpArg == [initial |-> NoVal, cutoff_freq |-> NoVal, loop_freq |-> NoVal]

NoLpLoc == [Ts |-> NoVal, wp |-> NoVal, Op |-> NoVal, Ap |-> NoVal,
            Oc |-> NoVal, tmp |-> NoVal]

LpIdle ==
  /\ f = ZeroF
  /\ n_init = 0
  /\ lp_arg = NoLpArg
  /\ lp_loc = NoLpLoc
  /\ f0 = ZeroF
  /\ hist = <<>>
  /\ outs = <<>>

\* lp1_filter_init calls in one run of the model.
MaxInits == 2

\* lp1_filter_update calls after Init or after one lp1_filter_init.
MaxUpd == 3

\* Initial values of the filter.
LpInitials == {Num(1), Num(-2)}

\* Cut-off frequencies (Hz); 5 Hz is above the bound for a 50 Hz loop.
CutoffValues == {Num(1), Num(2), Num(5)}

\* Loop frequencies (Hz); 0 violates the precondition loop_freq > 0.
LoopValues == {Num(0), Num(50), Num(100)}

\* Values fed to the filter.
LpInputs == {Num(0), Num(1), Num(-2)}

\* What the memory of f may hold before lp1_filter_init: the fields are
\* public, and lp1_filter_update reads whatever they hold.
LpGarbage ==
  [a : {Rat(-1, 3), Rat(1, 2)}, b : {Rat(1, 3), Num(1)},
   xn : {Num(0), Num(1)}, yn : {Num(0), Num(1)}]

LpStart ==
  /\ f \in LpGarbage
  /\ n_init = 0
  /\ lp_arg = NoLpArg
  /\ lp_loc = NoLpLoc
  /\ f0 = f
  /\ hist = <<>>
  /\ outs = <<>>

Cn0Idle ==
  /\ s = [log_bw |-> Zero, I_prev_abs |-> Zero, Q_prev_abs |-> Zero, cn0 |-> Zero]
  /\ s_ok = FALSE
  /\ arg = NoArg
  /\ n_upd = 0
  /\ call = NoCall
  /\ prev = NoSample
  /\ steady = TRUE

Lp1FilterInit ==
  \E initial \in LpInitials, cutoff_freq \in CutoffValues, loop_freq \in LoopValues :
    /\ n_init < MaxInits
    /\ \E r \in {lp1_filter_init(f, initial, cutoff_freq, loop_freq)} :
         /\ f' = r.f
         /\ f0' = r.f
         /\ lp_loc' = r.loc
    /\ n_init' = n_init + 1
    /\ lp_arg' = [initial |-> initial, cutoff_freq |-> cutoff_freq,
                  loop_freq |-> loop_freq]
    /\ hist' = <<>>
    /\ outs' = <<>>
    /\ UNCHANGED cn0vars

Lp1FilterUpdate ==
  \E value \in LpInputs :
    /\ Len(hist) < MaxUpd
    /\ \E r \in {lp1_filter_update(f, value)} :
         /\ f' = r.f
         /\ outs' = Append(outs, r.ret)
    /\ hist' = Append(hist, value)
    /\ UNCHANGED <<n_init, lp_arg, lp_loc, f0>>
    /\ UNCHANGED cn0vars

\* ------------------------------------------------- specifications

\* The estimator driven by its caller; the filter object is not used.
InitCn0 == Cn0Start /\ LpIdle

NextCn0 == Cn0EstSnvInit \/ Cn0EstSnvUpdate

SpecCn0 == InitCn0 /\ [][NextCn0]_vars

\* The filter driven by its caller; the estimator object is not used.
InitLp1 == LpStart /\ Cn0Idle

NextLp1 == Lp1FilterInit \/ Lp1FilterUpdate

SpecLp1 == InitLp1 /\ [][NextLp1]_vars

\* ------------------------------------------------ estimator: claims

\* The init met its preconditions: bw > 0, f_s > 0 (and f_i > 0).
ValidCn0Arg ==
  s_ok /\ FGt(arg.bw, Zero) /\ FGt(arg.f_s, Zero) /\ FGt(arg.f_i, Zero)

\* The step is the first cn0_est_snv_update after a cn0_est_snv_init.
FirstUpdateStep == s_ok /\ n_upd = 0 /\ n_upd' = 1

\* C1: the first cn0_est_snv_update after cn0_est_snv_init returns exactly
\* the cn0_0 given to the init, whatever bw, cn0_0, f_s, f_i, I and Q are;
\* it leaves cn0 and log_bw as they were and stores |I| and |Q| as the
\* previous sample.
C1_FirstUpdateReturnsInitial ==
  [][FirstUpdateStep =>
       /\ call'.ret = arg.cn0_0
       /\ call'.branch = "first"
       /\ s'.cn0 = s.cn0
       /\ s'.log_bw = s.log_bw
       /\ s'.I_prev_abs = FAbs(call'.I)
       /\ s'.Q_prev_abs = FAbs(call'.Q)]_vars

\* C1 witness: a first update with a nonzero sample has returned, on an
\* object initialised with valid parameters.
C1_Witness ==
  /\ n_upd = 1
  /\ s.log_bw.k = "dB"
  /\ call.I = Num(1000)
  /\ call.Q = Num(-1)
  /\ call.ret = arg.cn0_0

\* Every update since the init had I = 0 and Q = 0, and at least one of
\* them came after the bootstrap call.
ZeroSignalRun ==
  ValidCn0Arg /\ n_upd >= 2 /\ steady /\ call.I = Zero /\ call.Q = Zero

\* C2 (as claimed): with I = Q = 0 repeated, every call after the bootstrap
\* takes the clamp branch, nsr = 1e6 and the returned cn0 is log_bw - 60;
\* P_tot / P_s is not evaluated with P_s = 0.
C2_ZeroSignalClamps ==
  ZeroSignalRun =>
    /\ call.branch = "clamp"
    /\ call.nsr = CN0_SNV_NSR_MIN
    /\ call.ret = DbSub(s.log_bw, TenLog10f(Num(1000000)))
    /\ ~(call.branch = "div" /\ IsZero(call.P_s))

\* Every update since the init had I = c and Q = c for one c # 0, and at
\* least one of them came after the bootstrap call.
EqualIQRun ==
  n_upd >= 2 /\ steady /\ call.I = call.Q /\ ~IsZero(call.I)

C9_NsrWithinLimit ==
  (ValidCn0Arg /\ call.branch \in {"clamp", "div"}) => ~FGt(call.nsr, CN0_SNV_NSR_MIN)

\* The cn0 that cn0_est_snv_update computes from the sample before the last
\* one and the last one.
Cn0FromLastTwo ==
  cn0_est_snv_update([s EXCEPT !.I_prev_abs = FAbs(prev.I),
                               !.Q_prev_abs = FAbs(prev.Q)],
                     call.I, call.Q).ret

\* C10: after a cn0_est_snv_init only the first cn0_est_snv_update takes the
\* bootstrap branch; every later one recomputes cn0 from its sample and the
\* sample of the call before it, also after a sample with I = 0 or Q = 0;
\* I_prev_abs and Q_prev_abs hold |I| and |Q| of the last call and are never
\* negative.
C10_BootstrapOnce ==
  /\ n_upd = 1 => call.branch = "first"
  /\ n_upd >= 2 =>
       /\ call.branch \in {"clamp", "div"}
       /\ call.ret = Cn0FromLastTwo
       /\ s.cn0 = call.ret
  /\ n_upd >= 1 =>
       /\ s.I_prev_abs = FAbs(call.I)
       /\ s.Q_prev_abs = FAbs(call.Q)
       /\ ~FLt(s.I_prev_abs, Zero)
       /\ ~FLt(s.Q_prev_abs, Zero)

\* C10 witness: the third update after an init, following a sample with
\* I = 0 and Q = 0, has recomputed cn0.
C10_Witness ==
  /\ n_upd = 3
  /\ prev.I = Zero
  /\ prev.Q = Zero
  /\ call.I = Num(1)
  /\ call.branch = "div"
  /\ s.cn0 = call.ret

\* --------------------------------------------------- filter: claims

\* The last lp1_filter_init met its preconditions: loop_freq > 0,
\* cutoff_freq > 0 and the prewarped cutoff below the Nyquist bound, that
\* is wp/2 < pi/2, or 20 * cutoff_freq < loop_freq.
ValidLpArg ==
  /\ n_init >= 1
  /\ FGt(lp_arg.loop_freq, Zero)
  /\ FGt(lp_arg.cutoff_freq, Zero)
  /\ FLt(FMul(Num(20), lp_arg.cutoff_freq), lp_arg.loop_freq)

\* Since the last lp1_filter_init(f, v, ..) every update was fed that v, and
\* the init's denominator 2 - tmp was not zero.
ConstantRun ==
  /\ ValidLpArg
  /\ ~IsZero(FSub(Num(2), lp_loc.tmp))
  /\ Len(hist) >= 1
  /\ \A i \in 1..Len(hist) : hist[i] = lp_arg.initial

\* C4 (as claimed): after lp1_filter_init(f, v, cutoff, loop), every update
\* of an unbroken run of updates with the same v returns v and leaves
\* yn = v and xn = b * v.
C4_SteadyStateContinuity ==
  ConstantRun =>
    /\ outs[Len(outs)] = lp_arg.initial
    /\ f.yn = lp_arg.initial
    /\ f.xn = FMul(f.b, lp_arg.initial)

\* The run of lp1_filter_update calls over the inputs xs from the object g.
RECURSIVE RunFrom(_, _)
RunFrom(g, xs) ==
  IF xs = <<>> THEN [f |-> g, outs |-> <<>>]
  ELSE LET r == lp1_filter_update(g, Head(xs))
           rest == RunFrom(r.f, Tail(xs))
       IN [f |-> rest.f, outs |-> <<r.ret>> \o rest.outs]

\* A second run: a zeroed object, the same lp1_filter_init and the same
\* inputs.
SecondRun ==
  RunFrom(lp1_filter_init(ZeroF, lp_arg.initial, lp_arg.cutoff_freq,
                          lp_arg.loop_freq).f, hist)

\* C6: what lp1_filter_init leaves depends only on (initial, cutoff_freq,
\* loop_freq), not on what the object held or on the updates made before:
\* a run that inits an object of any contents and a run that inits a zeroed
\* object with the same parameters, fed the same inputs, return the same
\* outputs and end in the same state.
C6_InitDeterminism ==
  n_init >= 1 => (f = SecondRun.f /\ outs = SecondRun.outs)

\* C6 witness: an object was initialised a second time, after a first init
\* had left it non-zero, and two updates followed.
C6_Witness ==
  n_init = 2 /\ Len(hist) = 2 /\ f0 # ZeroF /\ hist[1] # hist[2]

\* C7 (as claimed): for valid loop_freq and cutoff_freq lp1_filter_init
\* leaves finite coefficients b = T*w0/(T*w0 + 2) and
\* a = (T*w0 - 2)/(T*w0 + 2) for a positive w0, so that |a| < 1.
C7_StableCoefficients ==
  ValidLpArg =>
    /\ IsFin(f0.a)
    /\ IsFin(f0.b)
    /\ FLt(FAbs(f0.a), Num(1))
    /\ LET Tw0 == FDiv(FMul(Num(2), f0.b), FSub(Num(1), f0.b))
       IN /\ FGt(Tw0, Zero)
          /\ f0.b = FDiv(Tw0, FAdd(Tw0, Num(2)))
          /\ f0.a = FDiv(FSub(Tw0, Num(2)), FAdd(Tw0, Num(2)))

\* b*x[n-1] and y[n-1] as the object holds them before update i: the xn
\* and yn the run started from for i = 1, and b times the previous input
\* and the previous output after that.
PrevXn(i) == IF i = 1 THEN f0.xn ELSE FMul(f0.b, hist[i - 1])

PrevYn(i) == IF i = 1 THEN f0.yn ELSE outs[i - 1]

\* C8: lp1_filter_update realizes y[n] = b*x[n] + b*x[n-1] - a*y[n-1]: every
\* returned value is b*value + old xn - a*old yn, xn is b times the last
\* input (b times the initial value after an init with no update), yn is
\* the last returned value (the initial value after an init with no
\* update), and no update changes a or b.
C8_DifferenceEquation ==
  /\ Len(outs) = Len(hist)
  /\ f.a = f0.a
  /\ f.b = f0.b
  /\ \A i \in 1..Len(hist) :
       outs[i] = FSub(FAdd(FMul(f0.b, hist[i]), PrevXn(i)),
                      FMul(f0.a, PrevYn(i)))
  /\ Len(hist) >= 1 =>
       /\ f.xn = FMul(f.b, hist[Len(hist)])
       /\ f.yn = outs[Len(outs)]
  /\ (n_init >= 1 /\ Len(hist) = 0) =>
       /\ f.xn = FMul(f.b, lp_arg.initial)
       /\ f.yn = lp_arg.initial

\* C8 witness: three updates with different inputs after an init.
C8_Witness ==
  /\ n_init >= 1
  /\ Len(hist) = 3
  /\ hist[1] # hist[2]
  /\ hist[2] # hist[3]
  /\ f.yn = outs[3]

\* Update i was fed 0 and is the (i - j)-th of the zero inputs that follow
\* the nonzero input of update j.
ZeroAfterImpulse(j, i) ==
  /\ j < i
  /\ ~IsZero(hist[j])
  /\ \A m \in (j + 1)..i : IsZero(hist[m])

Decays(i) == FAbs(outs[i]) = FMul(FAbs(f0.a), FAbs(outs[i - 1]))

\* C5 (as claimed): after a nonzero input followed by zero inputs, every
\* zero-input update, the first one after the impulse included, returns an
\* output of |a| times the magnitude of the previous output.
C5_DecayFromFirstZero ==
  \A i \in 2..Len(hist) :
    (\E j \in 1..(i - 1) : ZeroAfterImpulse(j, i)) => Decays(i)

\* C5 (amended): the same for every zero-input update but the first one
\* after the impulse.
C5_DecayAfterFirstZero ==
  \A i \in 3..Len(hist) :
    (\E j \in 1..(i - 2) : ZeroAfterImpulse(j, i)) => Decays(i)

\* C5 witness: an impulse and two zero inputs on an object with finite
\* coefficients; the last output is nonzero and decayed by |a|.
C5_Witness ==
  /\ Len(hist) = 3
  /\ ZeroAfterImpulse(1, 3)
  /\ IsFin(outs[3])
  /\ ~IsZero(outs[3])
  /\ Decays(3)
  /\ ~Decays(2)

====
